---- MODULE Spec2Model ----
(***************************************************************************)
(* Model of the prediction lifecycle client of replicate-rust:             *)
(* parse_version, PredictionClient::{create, reload, cancel, wait},        *)
(* RetryPolicy::step, Prediction::create and Replicate::run, against a     *)
(* remote service that is a black-box request/response function.           *)
(*                                                                         *)
(* Strings that the code inspects character by character (version          *)
(* references) are sequences of one-character strings.  A URL built by     *)
(* format!("{}/predictions/{}", ..) is the sequence of its path segments.  *)
(* A JSON text is the record of its members; JSON null is None.            *)
(***************************************************************************)
EXTENDS Integers, Sequences, FiniteSets, TLC

\* ------------------------------------------------------------------ bounds
\* Largest number of polls of one wait() that the service may answer with a
\* non-terminal status.
MaxPolls == 7

\* ------------------------------------------------------- program constants
\* RetryPolicy::new(5, RetryStrategy::FixedDelay(1000))
max_retries == 5

FixedDelayMs == 1000

\* Option::None / JSON null
None == "None"

\* ------------------------------------------------------------ enumerations
\* api_definitions::PredictionStatus, with its lowercase wire tokens
PredictionStatus == {"starting", "processing", "succeeded", "failed", "canceled"}

\* ----------------------------------------------------------- configuration
\* Config { auth, user_agent, base_url } as the tests construct it
Config == [auth |-> "test", user_agent |-> "replicate-rust/CARGO_PKG_VERSION", base_url |-> "http://mock"]

\* a check that lets every credential through
check_auth_skip(self) == "return"

\* Config::check_auth: the process exits with code 1 on an empty credential
check_auth(self) == IF self.auth = "" THEN "exit" ELSE "return"

\* the facade that was never built
NoReplicate == [exists |-> FALSE]

\* Replicate::new(config): the check, then one clone of config per accessor
Replicate_new(config) ==
    IF check_auth(config) = "exit" THEN NoReplicate
    ELSE [exists |-> TRUE, config |-> config,
          predictions |-> [parent |-> config],
          models |-> [parent |-> config, versions |-> [parent |-> config]],
          trainings |-> [parent |-> config],
          collections |-> [parent |-> config]]

\* ------------------------------------------------------- identifier parser
\* s.contains(c)
Contains(s, c) == \E i \in 1..Len(s) : s[i] = c

\* position of the first c in s, 0 when there is none
FirstIndex(s, c) ==
    IF Contains(s, c)
    THEN CHOOSE i \in 1..Len(s) : s[i] = c /\ \A j \in 1..(i - 1) : s[j] # c
    ELSE 0

\* a split at the last ':' instead of the first
rsplitn2(s, c) ==
    IF ~Contains(s, c) THEN << s >>
    ELSE LET i == CHOOSE k \in 1..Len(s) :
                      s[k] = c /\ \A j \in (k + 1)..Len(s) : s[j] # c
         IN  << SubSeq(s, 1, i - 1), SubSeq(s, i + 1, Len(s)) >>

\* s.splitn(2, ':') : at most two parts, split at the first ':'
splitn2(s, c) ==
    LET i == FirstIndex(s, c)
    IN  IF i = 0 THEN << s >>
        ELSE << SubSeq(s, 1, i - 1), SubSeq(s, i + 1, Len(s)) >>

\* parse_version(s) -> Option<(&str, &str)>
parse_version(s) ==
    LET parts == splitn2(s, ":")
    IN  IF Len(parts) < 2 THEN [some |-> FALSE]            \* parts.next()? twice
        ELSE LET model == parts[1]
                 version == parts[2]
             IN  IF ~Contains(model, "/") THEN [some |-> FALSE]
                 ELSE [some |-> TRUE, model |-> model, version |-> version]

\* the characters version references are drawn from, and their longest length
ParseAlphabet == {"a", "/", ":"}

MaxLen == 5

ParseInputs == UNION {[1..n -> ParseAlphabet] : n \in 0..MaxLen}

\* ------------------------------------------------------------------- errors
\* reqwest::Error raised by `.send()?` or `.text()?`
ReqwestError == [kind |-> "Reqwest", decode |-> FALSE]

\* reqwest::Error of the decode kind: `response.json()?` could not decode
ReqwestDecodeError == [kind |-> "Reqwest", decode |-> TRUE]

\* serde_json::Error raised by from_str / response.json()
SerdeError == [kind |-> "Serde"]

\* `Err(text.into())` : a boxed error whose message is the given text
MessageError(text) == [kind |-> "Message", text |-> text]

Ok(v) == [kind |-> "ok", value |-> v]

Err(e) == [kind |-> "err", err |-> e]

\* the thread unwinds: Option::unwrap() on None
Panic == [kind |-> "panic"]

\* ------------------------------------------------------ JSON deserialization
\* members without which neither CreatePrediction nor GetPrediction decodes
\* (every non-Option field)
RequiredCreate == {"id", "version", "urls", "created_at", "status", "input"}

RequiredGet == {"id", "version", "urls", "created_at", "status", "input"}

\* an Option<T> field: absent member and null both give None
Opt(text, m) == IF m \in DOMAIN text THEN text[m] ELSE None

\* serde: CreatePrediction from a JSON text (unknown members are ignored)
DeserializeCreatePrediction(text) ==
    IF RequiredCreate \subseteq DOMAIN text /\ text.status \in PredictionStatus
    THEN Ok([id |-> text.id, version |-> text.version, urls |-> text.urls,
             created_at |-> text.created_at, status |-> text.status,
             input |-> text.input, error |-> Opt(text, "error"),
             logs |-> Opt(text, "logs")])
    ELSE Err(SerdeError)

\* serde: GetPrediction from a JSON text
DeserializeGetPrediction(text) ==
    IF RequiredGet \subseteq DOMAIN text /\ text.status \in PredictionStatus
    THEN Ok([id |-> text.id, version |-> text.version, urls |-> text.urls,
             created_at |-> text.created_at,
             started_at |-> Opt(text, "started_at"),
             completed_at |-> Opt(text, "completed_at"),
             source |-> Opt(text, "source"),
             status |-> text.status, input |-> text.input,
             output |-> Opt(text, "output"), error |-> Opt(text, "error"),
             logs |-> Opt(text, "logs"), metrics |-> Opt(text, "metrics")])
    ELSE Err(SerdeError)

\* ------------------------------------------------------------ HTTP exchange
\* what one blocking request can come back with
SendFail == [kind |-> "sendfail"]

Response(success, body) == [kind |-> "response", success |-> success, body |-> body]

\* a body that arrives in full, and one whose read fails (`.text()?`)
Readable(text) == [readable |-> TRUE, text |-> text]

Unreadable == [readable |-> FALSE]

\* headers with another authorization scheme
Headers_bearer(rep) ==
    [Authorization |-> << "Bearer ", rep.auth >>, UserAgent |-> rep.user_agent]

\* the two standard headers
Headers(rep) == [Authorization |-> << "Token ", rep.auth >>, UserAgent |-> rep.user_agent]

\* client.post(format!("{}/predictions", rep.base_url)).json(&payload)
CreateRequest(rep, payload) ==
    [method |-> "POST", url |-> << rep.base_url, "predictions" >>,
     headers |-> Headers(rep), body |-> payload]

\* a GET addressed to the URL the service handed out in urls.get
GetRequest_urls(self) ==
    [method |-> "GET", url |-> self.urls.get,
     headers |-> Headers(self.parent), body |-> None]

\* client.get(format!("{}/predictions/{}", self.parent.base_url, self.id))
GetRequest(self) ==
    [method |-> "GET", url |-> << self.parent.base_url, "predictions", self.id >>,
     headers |-> Headers(self.parent), body |-> None]

\* client.post(format!("{}/predictions/{}/cancel", ..))
CancelRequest(self) ==
    [method |-> "POST", url |-> << self.parent.base_url, "predictions", self.id, "cancel" >>,
     headers |-> Headers(self.parent), body |-> None]

\* ------------------------------------------------------------ remote service
\* The service is outside the library; it is modelled as the environment:
\* it stores at most one prediction and answers each request with one of the
\* outcomes a blocking HTTP call can have.
NoPrediction == [exists |-> FALSE]

Terminal == {"succeeded", "failed", "canceled"}

NonTerminal == {"starting", "processing"}

\* the identifiers the service assigns
PredictionIds == {"p1", "p2"}

\* the prediction the service stores for an accepted POST /predictions
NewPrediction(payload, st, id) ==
    [exists |-> TRUE, id |-> id, version |-> payload.version,
     urls |-> [get |-> << "https://api", "predictions", id >>,
               cancel |-> << "https://api", "predictions", id, "cancel" >>],
     created_at |-> "t0",
     started_at |-> IF st = "starting" THEN None ELSE "t1",
     completed_at |-> None, source |-> "api",
     status |-> st, input |-> payload.input, output |-> None,
     error |-> None, logs |-> None, metrics |-> None]

\* the JSON text the service sends for a stored prediction; it carries one
\* member no response structure of the library has
ToJson(p) ==
    [id |-> p.id, version |-> p.version, urls |-> p.urls,
     created_at |-> p.created_at, started_at |-> p.started_at,
     completed_at |-> p.completed_at, source |-> p.source,
     status |-> p.status, input |-> p.input, output |-> p.output,
     error |-> p.error, logs |-> p.logs, metrics |-> p.metrics,
     data_removed |-> FALSE]

\* the JSON text of an error answer
DetailJson == [detail |-> "error detail"]

\* the stored prediction after the service moved it one step forward
Advance(p, st) ==
    [p EXCEPT !.status = st,
              !.started_at = "t1",
              !.completed_at = IF st \in Terminal THEN "t2" ELSE None,
              !.output = IF st = "succeeded" THEN "hello world" ELSE None,
              !.error = IF st = "failed" THEN "boom" ELSE None,
              !.logs = IF st = "starting" THEN None ELSE "log"]

\* statuses the service can move to from st (lifecycle of the remote job)
NextStatuses(st) ==
    CASE st = "starting" -> {"processing"}
      [] st = "processing" -> {"succeeded", "failed"}
      [] OTHER -> {}

\* a cancel request that reached the service: idempotent, only a running
\* prediction becomes canceled
Canceled(p) == IF p.status \in NonTerminal THEN Advance(p, "canceled") ELSE p

\* bodies and outcomes of a request whose well-formed answer is the text t
Bodies(t) == {Readable(t), Readable(DetailJson), Unreadable}

Outcomes(t) == {SendFail} \cup {Response(s, b) : s \in BOOLEAN, b \in Bodies(t)}

\* --------------------------------------------------- PredictionClient (pure)
\* the handle that does not exist (before create, after it was dropped)
NoClient == [exists |-> FALSE]

\* a payload that sends the whole reference, owner and name included
PredictionPayload_ref(version, inputs) ==
    [version |-> version, input |-> inputs]

\* PredictionPayload { version: version.to_string(), input: inputs }
PredictionPayload(version, inputs) ==
    [version |-> parse_version(version).version, input |-> inputs]

\* a create that keeps the version it was called with, not the response's
create_refversion(rep, version, inputs, o) ==
    IF ~parse_version(version).some THEN Panic
    ELSE IF o.kind = "sendfail" THEN Err(ReqwestError)
    ELSE IF o.success
    THEN IF ~o.body.readable THEN Err(ReqwestError)
         ELSE LET d == DeserializeCreatePrediction(o.body.text)
              IN  IF d.kind = "err" THEN Err(ReqwestDecodeError)
                  ELSE Ok([exists |-> TRUE, parent |-> rep,
                           id |-> d.value.id, version |-> version,
                           urls |-> d.value.urls,
                           created_at |-> d.value.created_at,
                           status |-> d.value.status, input |-> d.value.input,
                           error |-> d.value.error, logs |-> d.value.logs])
    ELSE IF ~o.body.readable THEN Err(ReqwestError)
         ELSE Err(MessageError(o.body.text))

\* a create that sets the status of a new prediction itself
create_starting(rep, version, inputs, o) ==
    IF ~parse_version(version).some THEN Panic
    ELSE IF o.kind = "sendfail" THEN Err(ReqwestError)
    ELSE IF o.success
    THEN IF ~o.body.readable THEN Err(ReqwestError)
         ELSE LET d == DeserializeCreatePrediction(o.body.text)
              IN  IF d.kind = "err" THEN Err(ReqwestDecodeError)
                  ELSE Ok([exists |-> TRUE, parent |-> rep,
                           id |-> d.value.id, version |-> d.value.version,
                           urls |-> d.value.urls,
                           created_at |-> d.value.created_at,
                           status |-> "starting", input |-> d.value.input,
                           error |-> d.value.error, logs |-> d.value.logs])
    ELSE IF ~o.body.readable THEN Err(ReqwestError)
         ELSE Err(MessageError(o.body.text))

\* a create that decodes the body without looking at the HTTP status
create_lenient(rep, version, inputs, o) ==
    IF ~parse_version(version).some THEN Panic
    ELSE IF o.kind = "sendfail" THEN Err(ReqwestError)
    ELSE IF ~o.body.readable THEN Err(ReqwestError)
    ELSE LET d == DeserializeCreatePrediction(o.body.text)
         IN  IF d.kind = "err" THEN Err(ReqwestDecodeError)
             ELSE Ok([exists |-> TRUE, parent |-> rep,
                      id |-> d.value.id, version |-> d.value.version,
                      urls |-> d.value.urls,
                      created_at |-> d.value.created_at,
                      status |-> d.value.status, input |-> d.value.input,
                      error |-> d.value.error, logs |-> d.value.logs])

\* PredictionClient::create, given the outcome o of its POST
create(rep, version, inputs, o) ==
    IF ~parse_version(version).some THEN Panic            \* .unwrap()
    ELSE IF o.kind = "sendfail" THEN Err(ReqwestError)    \* .send()?
    ELSE IF o.success
    THEN IF ~o.body.readable THEN Err(ReqwestError)       \* response.json()?
         ELSE LET d == DeserializeCreatePrediction(o.body.text)
              IN  IF d.kind = "err" THEN Err(ReqwestDecodeError)
                  ELSE Ok([exists |-> TRUE, parent |-> rep,
                           id |-> d.value.id, version |-> d.value.version,
                           urls |-> d.value.urls,
                           created_at |-> d.value.created_at,
                           status |-> d.value.status, input |-> d.value.input,
                           error |-> d.value.error, logs |-> d.value.logs])
    ELSE IF ~o.body.readable THEN Err(ReqwestError)       \* response.text()?
         ELSE Err(MessageError(o.body.text))

\* Prediction::create : Ok(PredictionClient::create(self.parent.clone(), ..)?)
Prediction_create(parent, version, inputs, o) ==
    LET r == create(parent, version, inputs, o)
    IN  IF r.kind = "ok" THEN Ok(r.value) ELSE r

\* a reload that records its failure in the error field of the handle
reload_recording(self, o) ==
    IF o.kind = "sendfail"
    THEN [res |-> Err(ReqwestError), self |-> [self EXCEPT !.error = "reload failed"]]
    ELSE IF ~o.body.readable
    THEN [res |-> Err(ReqwestError), self |-> [self EXCEPT !.error = "reload failed"]]
    ELSE LET d == DeserializeGetPrediction(o.body.text)
         IN  IF d.kind = "err"
             THEN [res |-> Err(d.err), self |-> [self EXCEPT !.error = "reload failed"]]
             ELSE [res |-> Ok("unit"),
                   self |-> [self EXCEPT !.id = d.value.id,
                                         !.version = d.value.version,
                                         !.urls = d.value.urls,
                                         !.created_at = d.value.created_at,
                                         !.status = d.value.status,
                                         !.input = d.value.input,
                                         !.error = d.value.error,
                                         !.logs = d.value.logs]]

\* a reload that takes the id from another member of the response
reload_idmix(self, o) ==
    IF o.kind = "sendfail" THEN [res |-> Err(ReqwestError), self |-> self]
    ELSE IF ~o.body.readable THEN [res |-> Err(ReqwestError), self |-> self]
    ELSE LET d == DeserializeGetPrediction(o.body.text)
         IN  IF d.kind = "err" THEN [res |-> Err(d.err), self |-> self]
             ELSE [res |-> Ok("unit"),
                   self |-> [self EXCEPT !.id = d.value.created_at,
                                         !.version = d.value.version,
                                         !.urls = d.value.urls,
                                         !.created_at = d.value.created_at,
                                         !.status = d.value.status,
                                         !.input = d.value.input,
                                         !.error = d.value.error,
                                         !.logs = d.value.logs]]

\* a reload that copies every field but the logs
reload_nologs(self, o) ==
    IF o.kind = "sendfail" THEN [res |-> Err(ReqwestError), self |-> self]
    ELSE IF ~o.body.readable THEN [res |-> Err(ReqwestError), self |-> self]
    ELSE LET d == DeserializeGetPrediction(o.body.text)
         IN  IF d.kind = "err" THEN [res |-> Err(d.err), self |-> self]
             ELSE [res |-> Ok("unit"),
                   self |-> [self EXCEPT !.id = d.value.id,
                                         !.version = d.value.version,
                                         !.urls = d.value.urls,
                                         !.created_at = d.value.created_at,
                                         !.status = d.value.status,
                                         !.input = d.value.input,
                                         !.error = d.value.error]]

\* a reload that forgets to copy the status
reload_stale(self, o) ==
    IF o.kind = "sendfail" THEN [res |-> Err(ReqwestError), self |-> self]
    ELSE IF ~o.body.readable THEN [res |-> Err(ReqwestError), self |-> self]
    ELSE LET d == DeserializeGetPrediction(o.body.text)
         IN  IF d.kind = "err" THEN [res |-> Err(d.err), self |-> self]
             ELSE [res |-> Ok("unit"),
                   self |-> [self EXCEPT !.id = d.value.id,
                                         !.version = d.value.version,
                                         !.error = d.value.error,
                                         !.logs = d.value.logs]]

\* PredictionClient::reload, given the outcome o of its GET: the result and
\* the fields of self afterwards
reload(self, o) ==
    IF o.kind = "sendfail" THEN [res |-> Err(ReqwestError), self |-> self]
    ELSE IF ~o.body.readable THEN [res |-> Err(ReqwestError), self |-> self]
    ELSE LET d == DeserializeGetPrediction(o.body.text)
         IN  IF d.kind = "err" THEN [res |-> Err(d.err), self |-> self]
             ELSE [res |-> Ok("unit"),
                   self |-> [self EXCEPT !.id = d.value.id,
                                         !.version = d.value.version,
                                         !.urls = d.value.urls,
                                         !.created_at = d.value.created_at,
                                         !.status = d.value.status,
                                         !.input = d.value.input,
                                         !.error = d.value.error,
                                         !.logs = d.value.logs]]

\* a cancel that goes on to the reload whatever became of the POST
cancel_post_ignore(o) == [done |-> FALSE]

\* the first half of PredictionClient::cancel: the POST and its `?`
cancel_post(o) ==
    IF o.kind = "sendfail" THEN [done |-> TRUE, res |-> Err(ReqwestError)]
    ELSE [done |-> FALSE]

\* RetryPolicy::new
RetryPolicy_new(max, strategy) == [max_retries |-> max, strategy |-> strategy]

\* RetryStrategy::FixedDelay(delay)
FixedDelay(delay) == [tag |-> "FixedDelay", delay |-> delay]

\* RetryPolicy::step : the sleep it performs
step(policy) == [ev |-> "sleep", ms |-> policy.strategy.delay]

\* a match that also returns on a non-terminal status
wait_match_eager(response_struct, response_string) ==
    [done |-> TRUE, res |-> Ok(response_struct)]

\* a match that turns failed and canceled into errors carrying the body
wait_match_err(response_struct, response_string) ==
    IF response_struct.status = "succeeded"
    THEN [done |-> TRUE, res |-> Ok(response_struct)]
    ELSE IF response_struct.status \in {"failed", "canceled"}
    THEN [done |-> TRUE, res |-> Err(MessageError(response_string))]
    ELSE [done |-> FALSE]

\* the match on response_struct.status in PredictionClient::wait
wait_match(response_struct, response_string) ==
    IF response_struct.status \in {"succeeded", "failed", "canceled"}
    THEN [done |-> TRUE, res |-> Ok(response_struct)]
    ELSE [done |-> FALSE]                                  \* retry_policy.step()

\* a libs/ match that takes canceled for a status to wait on
libs_wait_match_nocancel(response_struct, response_string) ==
    IF response_struct.status = "succeeded"
    THEN [done |-> TRUE, res |-> Ok(response_struct)]
    ELSE IF response_struct.status = "failed"
    THEN [done |-> TRUE, res |-> Err(MessageError(response_string))]
    ELSE [done |-> FALSE]

\* the match in the libs/ variant of PredictionClient::wait
libs_wait_match(response_struct, response_string) ==
    IF response_struct.status = "succeeded"
    THEN [done |-> TRUE, res |-> Ok(response_struct)]
    ELSE IF response_struct.status = "failed"
    THEN [done |-> TRUE, res |-> Err(MessageError(response_string))]
    ELSE IF response_struct.status \in {"processing", "starting"}
    THEN [done |-> FALSE]
    ELSE [done |-> TRUE, res |-> Err(MessageError(response_string))]

\* one iteration of the loop of wait, given the outcome o of its GET:
\* either the value wait returns or the decision to step and poll again
wait_poll(variant, o) ==
    IF o.kind = "sendfail" THEN [done |-> TRUE, res |-> Err(ReqwestError)]
    ELSE IF ~o.body.readable THEN [done |-> TRUE, res |-> Err(ReqwestError)]
    ELSE LET d == DeserializeGetPrediction(o.body.text)
         IN  IF d.kind = "err" THEN [done |-> TRUE, res |-> Err(d.err)]
             ELSE IF variant = "libs"
                  THEN libs_wait_match(d.value, o.body.text)
                  ELSE wait_match(d.value, o.body.text)

\* a cancel that marks the handle canceled itself after the reload
cancel_reload_local(self, o) ==
    LET r == reload(self, o)
    IN  IF r.res.kind = "err" THEN [res |-> Err(r.res.err), self |-> r.self]
        ELSE [res |-> Ok("unit"), self |-> [r.self EXCEPT !.status = "canceled"]]

\* the second half of PredictionClient::cancel: `self.reload()?; Ok(())`
\* with the reload error swallowed
cancel_reload_swallow(self, o) ==
    [res |-> Ok("unit"), self |-> reload(self, o).self]

\* a cancel that returns without the reload
cancel_reload_noload(self, o) == [res |-> Ok("unit"), self |-> self]

\* the second half of PredictionClient::cancel: `self.reload()?; Ok(())`
cancel_reload(self, o) ==
    LET r == reload(self, o)
    IN  IF r.res.kind = "err" THEN [res |-> Err(r.res.err), self |-> r.self]
        ELSE [res |-> Ok("unit"), self |-> r.self]

\* ---------------------------------------------------------------- accessors
\* ReplicateError::ResponseError(text)
ResponseError(text) == [kind |-> "Response", text |-> text]

\* the response structures: members serde requires, and Option members
GetModel ==
    [required |-> {"url", "owner", "name", "description", "visibility",
                   "default_example", "latest_version"},
     optional |-> {"github_url", "paper_url", "license_url", "run_count",
                   "cover_image_url"}]

GetCollectionModels ==
    [required |-> {"name", "slug", "description", "models"}, optional |-> {}]

GetTraining ==
    [required |-> {"id", "version", "status", "created_at"},
     optional |-> {"input", "output", "error", "logs", "webhook_completed",
                   "started_at", "completed_at"}]

CreateTraining ==
    [required |-> {"id", "version", "status", "created_at"},
     optional |-> {"input", "output", "logs", "started_at", "completed_at"}]

GetModelVersion ==
    [required |-> {"id", "created_at", "cog_version", "openapi_schema"},
     optional |-> {}]

ListCollectionModels ==
    [required |-> {"results"}, optional |-> {"previous", "next"}]

ListPredictions ==
    [required |-> {"results"}, optional |-> {"previous", "next"}]

ListModelVersions ==
    [required |-> {"results"}, optional |-> {"previous", "next"}]

ListTraining ==
    [required |-> {"results"}, optional |-> {"previous", "next"}]

\* serde_json::from_str into a response structure: every required member is
\* present, a status member is one of the PredictionStatus tokens, members
\* the structure does not have are dropped
from_str(struct, text) ==
    IF /\ struct.required \subseteq DOMAIN text
       /\ "status" \in struct.required => text.status \in PredictionStatus
    THEN Ok([f \in struct.required \cup struct.optional |-> Opt(text, f)])
    ELSE Err(SerdeError)

\* replicate.predictions.list()
Prediction_list(parent, o) ==
    [req |-> [method |-> "GET", url |-> << parent.base_url, "predictions" >>,
              headers |-> Headers(parent), body |-> None],
     res |-> IF o.kind = "sendfail" THEN Err(ReqwestError)
             ELSE IF ~o.success
                  THEN IF o.body.readable THEN Err(ResponseError(o.body.text))
                       ELSE Err(ReqwestError)
             ELSE IF ~o.body.readable THEN Err(ReqwestError)
             ELSE from_str(ListPredictions, o.body.text)]

\* replicate.predictions.get(id)
Prediction_get(parent, id, o) ==
    [req |-> [method |-> "GET", url |-> << parent.base_url, "predictions", id >>,
              headers |-> Headers(parent), body |-> None],
     res |-> IF o.kind = "sendfail" THEN Err(ReqwestError)
             ELSE IF ~o.success
                  THEN IF o.body.readable THEN Err(ResponseError(o.body.text))
                       ELSE Err(ReqwestError)
             ELSE IF ~o.body.readable THEN Err(ReqwestError)
             ELSE DeserializeGetPrediction(o.body.text)]

\* replicate.models.get(model_owner, model_name): no look at the HTTP status
Model_get(parent, model_owner, model_name, o) ==
    [req |-> [method |-> "GET",
              url |-> << parent.base_url, "models", model_owner, model_name >>,
              headers |-> Headers(parent), body |-> None],
     res |-> IF o.kind = "sendfail" THEN Err(ReqwestError)
             ELSE IF ~o.body.readable THEN Err(ReqwestError)
             ELSE from_str(GetModel, o.body.text)]

\* replicate.collections.get(collection_slug): no look at the HTTP status
Collection_get(parent, collection_slug, o) ==
    [req |-> [method |-> "GET",
              url |-> << parent.base_url, "collections", collection_slug >>,
              headers |-> Headers(parent), body |-> None],
     res |-> IF o.kind = "sendfail" THEN Err(ReqwestError)
             ELSE IF ~o.body.readable THEN Err(ReqwestError)
             ELSE from_str(GetCollectionModels, o.body.text)]

\* replicate.collections.list(): no look at the HTTP status
Collection_list(parent, o) ==
    [req |-> [method |-> "GET", url |-> << parent.base_url, "collections" >>,
              headers |-> Headers(parent), body |-> None],
     res |-> IF o.kind = "sendfail" THEN Err(ReqwestError)
             ELSE IF ~o.body.readable THEN Err(ReqwestError)
             ELSE from_str(ListCollectionModels, o.body.text)]

\* replicate.models.versions.get(model_owner, model_name, version_id)
Version_get(parent, model_owner, model_name, version_id, o) ==
    [req |-> [method |-> "GET",
              url |-> << parent.base_url, "models", model_owner, model_name,
                         "versions", version_id >>,
              headers |-> Headers(parent), body |-> None],
     res |-> IF o.kind = "sendfail" THEN Err(ReqwestError)
             ELSE IF ~o.success
                  THEN IF o.body.readable THEN Err(ResponseError(o.body.text))
                       ELSE Err(ReqwestError)
             ELSE IF ~o.body.readable THEN Err(ReqwestError)
             ELSE from_str(GetModelVersion, o.body.text)]

\* replicate.models.versions.list(model_owner, model_name)
Version_list(parent, model_owner, model_name, o) ==
    [req |-> [method |-> "GET",
              url |-> << parent.base_url, "models", model_owner, model_name,
                         "versions" >>,
              headers |-> Headers(parent), body |-> None],
     res |-> IF o.kind = "sendfail" THEN Err(ReqwestError)
             ELSE IF ~o.success
                  THEN IF o.body.readable THEN Err(ResponseError(o.body.text))
                       ELSE Err(ReqwestError)
             ELSE IF ~o.body.readable THEN Err(ReqwestError)
             ELSE from_str(ListModelVersions, o.body.text)]

\* replicate.trainings.create(model_owner, model_name, version_id, options)
Training_create(parent, model_owner, model_name, version_id, options, o) ==
    [req |-> [method |-> "POST",
              url |-> << parent.base_url, "models", model_owner, model_name,
                         "versions", version_id, "trainings" >>,
              headers |-> Headers(parent),
              body |-> [destination |-> options.destination,
                        input |-> options.input,
                        webhook |-> options.webhook]],
     res |-> IF o.kind = "sendfail" THEN Err(ReqwestError)
             ELSE IF ~o.success
                  THEN IF o.body.readable THEN Err(ResponseError(o.body.text))
                       ELSE Err(ReqwestError)
             ELSE IF ~o.body.readable THEN Err(ReqwestError)
             ELSE from_str(CreateTraining, o.body.text)]

\* replicate.trainings.get(training_id)
Training_get(parent, training_id, o) ==
    [req |-> [method |-> "GET",
              url |-> << parent.base_url, "trainings", training_id >>,
              headers |-> Headers(parent), body |-> None],
     res |-> IF o.kind = "sendfail" THEN Err(ReqwestError)
             ELSE IF ~o.success
                  THEN IF o.body.readable THEN Err(ResponseError(o.body.text))
                       ELSE Err(ReqwestError)
             ELSE IF ~o.body.readable THEN Err(ReqwestError)
             ELSE from_str(GetTraining, o.body.text)]

\* replicate.trainings.list()
Training_list(parent, o) ==
    [req |-> [method |-> "GET", url |-> << parent.base_url, "trainings" >>,
              headers |-> Headers(parent), body |-> None],
     res |-> IF o.kind = "sendfail" THEN Err(ReqwestError)
             ELSE IF ~o.success
                  THEN IF o.body.readable THEN Err(ResponseError(o.body.text))
                       ELSE Err(ReqwestError)
             ELSE IF ~o.body.readable THEN Err(ReqwestError)
             ELSE from_str(ListTraining, o.body.text)]

\* replicate.trainings.cancel(training_id)
Training_cancel(parent, training_id, o) ==
    [req |-> [method |-> "POST",
              url |-> << parent.base_url, "trainings", training_id, "cancel" >>,
              headers |-> Headers(parent), body |-> None],
     res |-> IF o.kind = "sendfail" THEN Err(ReqwestError)
             ELSE IF ~o.success
                  THEN IF o.body.readable THEN Err(ResponseError(o.body.text))
                       ELSE Err(ReqwestError)
             ELSE IF ~o.body.readable THEN Err(ReqwestError)
             ELSE from_str(GetTraining, o.body.text)]

\* the accessors of the Replicate client, by the path callers reach them
Accessors ==
    {"predictions.list", "predictions.get", "models.get", "collections.get",
     "collections.list", "versions.get", "versions.list", "trainings.create",
     "trainings.get", "trainings.list", "trainings.cancel"}

\* the options callers pass to trainings.create
TrainingOptions ==
    [destination |-> "new_owner/new_name", input |-> [training_data |-> "url"],
     webhook |-> "hook"]

\* the identifiers callers pass to the accessors (a prediction, a training,
\* a version, a collection slug)
ResourceIds == {"r1", "r2"}

\* one call of accessor a of the facade rep on the resource id
Call(rep, a, id, o) ==
    CASE a = "predictions.list" -> Prediction_list(rep.predictions.parent, o)
      [] a = "predictions.get" -> Prediction_get(rep.predictions.parent, id, o)
      [] a = "models.get" -> Model_get(rep.models.parent, "o", id, o)
      [] a = "collections.get" -> Collection_get(rep.collections.parent, id, o)
      [] a = "collections.list" -> Collection_list(rep.collections.parent, o)
      [] a = "versions.get" -> Version_get(rep.models.versions.parent, "o", "m", id, o)
      [] a = "versions.list" -> Version_list(rep.models.versions.parent, "o", id, o)
      [] a = "trainings.create" ->
            Training_create(rep.trainings.parent, "o", "m", id, TrainingOptions, o)
      [] a = "trainings.get" -> Training_get(rep.trainings.parent, id, o)
      [] a = "trainings.list" -> Training_list(rep.trainings.parent, o)
      [] a = "trainings.cancel" -> Training_cancel(rep.trainings.parent, id, o)

\* the well-formed answer of the service to accessor a on the resource id;
\* like ToJson it carries one member no response structure has
Answer(a, id) ==
    CASE a \in {"predictions.list", "collections.list", "versions.list",
                "trainings.list"} ->
            [previous |-> None, next |-> None, results |-> << >>,
             data_removed |-> FALSE]
      [] a = "predictions.get" ->
            [id |-> id, version |-> << "v", "0" >>,
             urls |-> [get |-> << "https://api", "predictions", id >>,
                       cancel |-> << "https://api", "predictions", id, "cancel" >>],
             created_at |-> "t0", started_at |-> "t1", completed_at |-> "t2",
             source |-> "api", status |-> "succeeded",
             input |-> [text |-> "world"], output |-> "hello world",
             error |-> None, logs |-> "log", metrics |-> None,
             data_removed |-> FALSE]
      [] a = "models.get" ->
            [url |-> "u", owner |-> "o", name |-> id, description |-> "d",
             visibility |-> "public", github_url |-> None, paper_url |-> None,
             license_url |-> None, run_count |-> 1, cover_image_url |-> None,
             default_example |-> None, latest_version |-> None,
             data_removed |-> FALSE]
      [] a = "collections.get" ->
            [name |-> "n", slug |-> id, description |-> "d", models |-> << >>,
             data_removed |-> FALSE]
      [] a = "versions.get" ->
            [id |-> id, created_at |-> "t0", cog_version |-> "0.3",
             openapi_schema |-> "schema", data_removed |-> FALSE]
      [] a = "trainings.create" ->
            [id |-> "t1", version |-> id, status |-> "starting",
             input |-> None, output |-> None, logs |-> None,
             started_at |-> None, created_at |-> "t0", completed_at |-> None,
             data_removed |-> FALSE]
      [] a \in {"trainings.get", "trainings.cancel"} ->
            [id |-> id, version |-> "v1",
             status |-> IF a = "trainings.cancel" THEN "canceled" ELSE "processing",
             input |-> None, output |-> None, error |-> None, logs |-> None,
             started_at |-> "t1", created_at |-> "t0", completed_at |-> None,
             data_removed |-> FALSE]

\* ------------------------------------------------------------------- inputs
\* version references callers pass to create and run
VersionRefs ==
    { << "o", "/", "m", ":", "v", "1" >>,        \* owner/name:version
      << "o", "/", "m", ":", "v", ":", "x" >>,   \* further ':' in the version
      << "o", "/", "m" >>,                       \* no ':'
      << "m", ":", "v" >>,                       \* no '/' before the ':'
      << "m", ":", "/", "v" >> }                 \* '/' only after the ':'

\* input mappings callers pass to create and run
InputMaps == { [text |-> "world"] }

\* ------------------------------------------------------------------- state
VARIABLES
    server,        \* the prediction the remote service stores
    client,        \* the PredictionClient the caller holds
    pc,            \* where the caller's thread is
    op,            \* the operation running or last run, with its version reference
    trace,         \* requests issued and sleeps performed by that operation, in order
    last,          \* the outcome of the latest request of that operation
    result,        \* what that operation returned
    pre,           \* the fields of the PredictionClient when that operation was called
    retry_policy,  \* the RetryPolicy local to wait
    replicate,     \* the Replicate facade the caller built
    other          \* a second handle on the prediction and the thread that uses it

vars == << server, client, pc, op, trace, last, result, pre, retry_policy,
           replicate, other >>

NoPolicy == [exists |-> FALSE]

Pending == [kind |-> "pending"]

NoExchange == [kind |-> "none"]

\* no second handle
NoOther == [client |-> NoClient, pc |-> "none", result |-> [kind |-> "none"],
            trace |-> << >>, last |-> NoExchange, at |-> "none"]

\* what a request came back with, as far as the trace keeps it: the failure,
\* or the status member of the body
Saw(o) ==
    IF o.kind = "sendfail" THEN "sendfail"
    ELSE IF ~o.body.readable THEN "unreadable"
    ELSE IF "status" \in DOMAIN o.body.text THEN o.body.text.status
    ELSE "undecodable"

RequestEvent(req, o) == [ev |-> "request", req |-> req, saw |-> Saw(o)]

Sleeps(t) == Cardinality({i \in DOMAIN t : t[i].ev = "sleep"})

Init ==
    /\ server = NoPrediction
    /\ client = NoClient
    /\ pc = "idle"
    /\ op = [name |-> "none", version |-> << >>]
    /\ trace = << >>
    /\ last = NoExchange
    /\ result = [kind |-> "none"]
    /\ pre = NoClient
    /\ retry_policy = NoPolicy
    /\ replicate = Replicate_new(Config)
    /\ other = NoOther

\* ----------------------------------------------------------------- actions
\* replicate.predictions.create(version, inputs)
Create(version, inputs) ==
    /\ pc = "idle"
    /\ ~client.exists
    /\ op' = [name |-> "create", version |-> version, inputs |-> inputs]
    /\ pre' = client
    /\ UNCHANGED retry_policy
    /\ IF ~parse_version(version).some
       THEN \* the unwrap panics before any request is built
            /\ result' = Prediction_create(replicate.predictions.parent, version, inputs, SendFail)
            /\ pc' = "panicked"
            /\ trace' = << >>
            /\ last' = NoExchange
            /\ UNCHANGED << server, client >>
       ELSE LET payload == PredictionPayload(version, inputs)
                req == CreateRequest(replicate.predictions.parent, payload)
            IN  \E st \in NonTerminal, id \in PredictionIds :
                \E o \in Outcomes(ToJson(NewPrediction(payload, st, id))) :
                    LET r == Prediction_create(replicate.predictions.parent, version, inputs, o)
                    IN  /\ trace' = << RequestEvent(req, o) >>
                        /\ last' = o
                        /\ server' = IF o.kind = "response" /\ o.success
                                     THEN NewPrediction(payload, st, id) ELSE server
                        /\ result' = r
                        /\ client' = IF r.kind = "ok" THEN r.value ELSE client
                        /\ pc' = "idle"
    /\ UNCHANGED << replicate, other >>

\* replicate.run(version, inputs): create, then wait on the new handle
Run(version, inputs) ==
    /\ pc = "idle"
    /\ ~client.exists
    /\ op' = [name |-> "run", version |-> version, inputs |-> inputs]
    /\ pre' = client
    /\ IF ~parse_version(version).some
       THEN /\ result' = Prediction_create(replicate.config, version, inputs, SendFail)
            /\ pc' = "panicked"
            /\ trace' = << >>
            /\ last' = NoExchange
            /\ UNCHANGED << server, client, retry_policy >>
       ELSE LET payload == PredictionPayload(version, inputs)
                req == CreateRequest(replicate.config, payload)
            IN  \E st \in NonTerminal, id \in PredictionIds :
                \E o \in Outcomes(ToJson(NewPrediction(payload, st, id))) :
                    LET r == Prediction_create(replicate.config, version, inputs, o)
                    IN  /\ trace' = << RequestEvent(req, o) >>
                        /\ last' = o
                        /\ server' = IF o.kind = "response" /\ o.success
                                     THEN NewPrediction(payload, st, id) ELSE server
                        /\ IF r.kind = "ok"
                           THEN \* prediction.wait()
                                /\ client' = r.value
                                /\ result' = Pending
                                /\ retry_policy' = RetryPolicy_new(max_retries, FixedDelay(FixedDelayMs))
                                /\ pc' = "wait_poll"
                           ELSE \* the `?` after create
                                /\ result' = r
                                /\ pc' = "idle"
                                /\ UNCHANGED << client, retry_policy >>
    /\ UNCHANGED << replicate, other >>

\* prediction.reload()
Reload ==
    /\ pc = "idle"
    /\ client.exists
    /\ \E o \in Outcomes(ToJson(server)) :
           LET r == reload(client, o)
           IN  /\ trace' = << RequestEvent(GetRequest(client), o) >>
               /\ last' = o
               /\ client' = r.self
               /\ result' = r.res
    /\ op' = [name |-> "reload", version |-> << >>]
    /\ pre' = client
    /\ UNCHANGED << server, pc, retry_policy >>
    /\ UNCHANGED << replicate, other >>

\* prediction.cancel(): the POST to the cancel sub-resource
CancelPost ==
    /\ pc = "idle"
    /\ client.exists
    /\ op' = [name |-> "cancel", version |-> << >>]
    /\ pre' = client
    /\ \E o \in {SendFail, Response(TRUE, Readable(ToJson(Canceled(server)))),
                 Response(FALSE, Readable(DetailJson))} :
           LET r == cancel_post(o)
           IN  /\ trace' = << RequestEvent(CancelRequest(client), o) >>
               /\ last' = o
               /\ server' = IF o.kind = "response" /\ o.success
                            THEN Canceled(server) ELSE server
               /\ IF r.done
                  THEN result' = r.res /\ pc' = "idle"
                  ELSE result' = Pending /\ pc' = "cancel_reload"
    /\ UNCHANGED << client, retry_policy >>
    /\ UNCHANGED << replicate, other >>

\* prediction.cancel(): self.reload()? and the return
CancelReload ==
    /\ pc = "cancel_reload"
    /\ \E o \in Outcomes(ToJson(server)) :
           LET r == cancel_reload(client, o)
           IN  /\ trace' = Append(trace, RequestEvent(GetRequest(client), o))
               /\ last' = o
               /\ client' = r.self
               /\ result' = r.res
    /\ pc' = "idle"
    /\ UNCHANGED << server, op, pre, retry_policy >>
    /\ UNCHANGED << replicate, other >>

\* a wait that answers from the local fields when they are already terminal
WaitCall_local(variant) ==
    /\ pc = "idle"
    /\ client.exists
    /\ op' = [name |-> IF variant = "libs" THEN "libs_wait" ELSE "wait", version |-> << >>]
    /\ pre' = client
    /\ trace' = << >>
    /\ last' = NoExchange
    /\ retry_policy' = RetryPolicy_new(max_retries, FixedDelay(FixedDelayMs))
    /\ IF client.status \in {"succeeded", "failed", "canceled"}
       THEN /\ result' = Ok([id |-> client.id, version |-> client.version,
                             urls |-> client.urls, created_at |-> client.created_at,
                             started_at |-> None, completed_at |-> None,
                             source |-> None, status |-> client.status,
                             input |-> client.input, output |-> None,
                             error |-> client.error, logs |-> client.logs,
                             metrics |-> None])
            /\ pc' = "idle"
       ELSE /\ result' = Pending
            /\ pc' = "wait_poll"
    /\ UNCHANGED << server, client, replicate, other >>

\* prediction.wait() is called: the retry policy is built, the loop entered
WaitCall(variant) ==
    /\ pc = "idle"
    /\ client.exists
    /\ op' = [name |-> IF variant = "libs" THEN "libs_wait" ELSE "wait", version |-> << >>]
    /\ pre' = client
    /\ trace' = << >>
    /\ last' = NoExchange
    /\ result' = Pending
    /\ retry_policy' = RetryPolicy_new(max_retries, FixedDelay(FixedDelayMs))
    /\ pc' = "wait_poll"
    /\ UNCHANGED << server, client >>
    /\ UNCHANGED << replicate, other >>

\* a loop of wait that stores the status of each decoded poll in the handle
WaitPoll_update ==
    /\ pc = "wait_poll"
    /\ \E o \in Outcomes(ToJson(server)) :
           LET r == wait_poll(IF op.name = "libs_wait" THEN "libs" ELSE "crate", o)
           IN  /\ Saw(o) \notin NonTerminal \/ Sleeps(trace) < MaxPolls
               /\ trace' = Append(trace, RequestEvent(GetRequest(client), o))
               /\ last' = o
               /\ IF r.done
                  THEN /\ result' = r.res
                       /\ pc' = "idle"
                       /\ client' = IF op.name \in {"run", "libs_wait"} THEN NoClient
                                    ELSE IF r.res.kind = "ok"
                                    THEN [client EXCEPT !.status = r.res.value.status]
                                    ELSE client
                  ELSE /\ pc' = "wait_step"
                       /\ UNCHANGED << result, client >>
    /\ UNCHANGED << server, op, pre, retry_policy >>
    /\ UNCHANGED << replicate, other >>

\* one iteration of the loop of wait: the GET and the match on the status
WaitPoll ==
    /\ pc = "wait_poll"
    /\ \E o \in Outcomes(ToJson(server)) :
           LET r == wait_poll(IF op.name = "libs_wait" THEN "libs" ELSE "crate", o)
           IN  \* the service answers at most MaxPolls polls of one wait
               \* with a non-terminal status
               /\ Saw(o) \notin NonTerminal \/ Sleeps(trace) < MaxPolls
               /\ trace' = Append(trace, RequestEvent(GetRequest(client), o))
               /\ last' = o
               /\ IF r.done
                  THEN /\ result' = r.res
                       /\ pc' = "idle"
                       \* run's local handle is dropped; libs wait(self) consumes self
                       /\ client' = IF op.name \in {"run", "libs_wait"} THEN NoClient ELSE client
                  ELSE /\ pc' = "wait_step"
                       /\ UNCHANGED << result, client >>
    /\ UNCHANGED << server, op, pre, retry_policy >>
    /\ UNCHANGED << replicate, other >>

\* a step that sleeps twice
WaitStep_twice ==
    /\ pc = "wait_step"
    /\ trace' = Append(Append(trace, step(retry_policy)), step(retry_policy))
    /\ pc' = "wait_poll"
    /\ UNCHANGED << server, client, op, last, result, pre, retry_policy >>
    /\ UNCHANGED << replicate, other >>

\* a step that never comes back
WaitStep_hang ==
    /\ pc = "wait_step"
    /\ UNCHANGED vars

\* a step that consults max_retries and gives up when the budget is used
WaitStep_bounded ==
    /\ pc = "wait_step"
    /\ IF Sleeps(trace) >= retry_policy.max_retries
       THEN /\ result' = Err(MessageError("max retries exceeded"))
            /\ pc' = "idle"
            /\ UNCHANGED trace
       ELSE /\ trace' = Append(trace, step(retry_policy))
            /\ pc' = "wait_poll"
            /\ UNCHANGED result
    /\ UNCHANGED << server, client, op, last, pre, retry_policy >>
    /\ UNCHANGED << replicate, other >>

\* retry_policy.step() in the loop of wait
WaitStep ==
    /\ pc = "wait_step"
    /\ trace' = Append(trace, step(retry_policy))
    /\ pc' = "wait_poll"
    /\ UNCHANGED << server, client, op, last, result, pre, retry_policy >>
    /\ UNCHANGED << replicate, other >>

\* one call of an accessor of the Replicate client: one request, one result
Access(a, id) ==
    /\ pc = "idle"
    /\ \E o \in Outcomes(Answer(a, id)) :
           LET r == Call(replicate, a, id, o)
           IN  /\ trace' = << RequestEvent(r.req, o) >>
               /\ last' = o
               /\ result' = r.res
    /\ op' = [name |-> a, version |-> << >>]
    /\ pre' = client
    /\ UNCHANGED << server, client, pc, retry_policy >>
    /\ UNCHANGED << replicate, other >>

\* the remote job moves forward on its own
ServerAdvance ==
    /\ server.exists
    /\ \E st \in NextStatuses(server.status) : server' = Advance(server, st)
    /\ UNCHANGED << client, pc, op, trace, last, result, pre, retry_policy >>
    /\ UNCHANGED << replicate, other >>

Next ==
    \/ \E v \in VersionRefs, i \in InputMaps : Create(v, i)
    \/ \E v \in VersionRefs, i \in InputMaps : Run(v, i)
    \/ Reload
    \/ CancelPost
    \/ CancelReload
    \/ \E variant \in {"crate", "libs"} : WaitCall(variant)
    \/ WaitPoll
    \/ WaitStep
    \/ ServerAdvance

Spec == Init /\ [][Next]_vars

\* the caller's thread runs: an entered loop of wait keeps taking its steps
FairSpec == Spec /\ WF_vars(WaitPoll) /\ WF_vars(WaitStep)

\* parse_version on its own: a caller holds a string and applies the parser
ParseInit ==
    /\ \E s \in ParseInputs : op = [name |-> "parse_version", version |-> s]
    /\ server = NoPrediction
    /\ client = NoClient
    /\ pc = "idle"
    /\ trace = << >>
    /\ last = NoExchange
    /\ result = [kind |-> "none"]
    /\ pre = NoClient
    /\ retry_policy = NoPolicy
    /\ replicate = Replicate_new(Config)
    /\ other = NoOther

ParseApply ==
    /\ op.name = "parse_version"
    /\ result.kind = "none"
    /\ result' = Ok(parse_version(op.version))
    /\ UNCHANGED << server, client, pc, op, trace, last, pre, retry_policy >>
    /\ UNCHANGED << replicate, other >>

ParseSpec == ParseInit /\ [][ParseApply]_vars

\* the accessors, which hold no state between calls
AccessNext == \E a \in Accessors, id \in ResourceIds : Access(a, id)

AccessSpec == Init /\ [][AccessNext]_vars

\* the prediction lifecycle and the accessors under one caller. An accessor
\* reads and writes nothing of a prediction handle or of the stored
\* prediction, so its calls are explored from the states in which the
\* service stores no prediction yet.
AllNext == Next \/ (~server.exists /\ AccessNext)

AllSpec == Init /\ [][AllNext]_vars

\* the credentials a caller may put in the Config it passes to Replicate::new
Credentials == {"", "test", "r8_token"}

Configs == {[Config EXCEPT !.auth = a] : a \in Credentials}

\* a process that has not built its facade yet
NewInit ==
    /\ server = NoPrediction
    /\ client = NoClient
    /\ pc = "main"
    /\ op = [name |-> "none", version |-> << >>]
    /\ trace = << >>
    /\ last = NoExchange
    /\ result = [kind |-> "none"]
    /\ pre = NoClient
    /\ retry_policy = NoPolicy
    /\ replicate = NoReplicate
    /\ other = NoOther

\* Replicate::new(config): the facade, or the end of the process
New(config) ==
    /\ pc = "main"
    /\ op' = [name |-> "new", version |-> << >>, config |-> config]
    /\ replicate' = Replicate_new(config)
    /\ pc' = IF replicate'.exists THEN "idle" ELSE "exited"
    /\ result' = IF replicate'.exists THEN Ok("facade")
                 ELSE [kind |-> "exit", code |-> 1]
    /\ UNCHANGED << server, client, trace, last, pre, retry_policy, other >>

\* construction, then calls through the facade
NewNext ==
    \/ \E config \in Configs : New(config)
    \/ AccessNext
    \/ \E v \in VersionRefs, i \in InputMaps : Create(v, i)
    \/ Reload

NewSpec == NewInit /\ [][NewNext]_vars

\* ------------------------------------------------- a clone on a second thread
\* the shared steps of the second thread's cancel: the reload of the clone
OtherCancelReloadStep(shared) ==
    /\ other.pc = "cancel_reload"
    /\ \E o \in Outcomes(ToJson(server)) :
           LET r == cancel_reload(other.client, o)
           IN  /\ other' = [other EXCEPT
                                !.client = r.self,
                                !.result = r.res,
                                !.trace = Append(other.trace,
                                                 RequestEvent(GetRequest(other.client), o)),
                                !.last = o,
                                !.pc = "done"]
               /\ client' = IF shared /\ client.exists THEN r.self ELSE client
    /\ UNCHANGED << server, pc, op, trace, last, result, pre, retry_policy, replicate >>

\* a clone that is one object with the original: the reload writes both
OtherCancelReload_shared == OtherCancelReloadStep(TRUE)

\* prediction.clone(): the derived Clone copies every field into a new value
CloneHandle ==
    /\ client.exists
    /\ other.pc = "none"
    /\ other' = [NoOther EXCEPT !.client = client, !.pc = "idle"]
    /\ UNCHANGED << server, client, pc, op, trace, last, result, pre, retry_policy,
                    replicate >>

\* clone.cancel() on the second thread: the POST to the cancel sub-resource
OtherCancelPost ==
    /\ other.pc = "idle"
    /\ \E o \in {SendFail, Response(TRUE, Readable(ToJson(Canceled(server)))),
                 Response(FALSE, Readable(DetailJson))} :
           LET r == cancel_post(o)
           IN  /\ server' = IF o.kind = "response" /\ o.success
                            THEN Canceled(server) ELSE server
               /\ other' = [other EXCEPT
                                !.trace = << RequestEvent(CancelRequest(other.client), o) >>,
                                !.last = o,
                                !.at = pc,
                                !.result = IF r.done THEN r.res ELSE Pending,
                                !.pc = IF r.done THEN "done" ELSE "cancel_reload"]
    /\ UNCHANGED << client, pc, op, trace, last, result, pre, retry_policy, replicate >>

\* clone.cancel() on the second thread: self.reload()? and the return
OtherCancelReload == OtherCancelReloadStep(FALSE)

\* the cancel POST of the second thread reached the service
Posted ==
    /\ other.pc \in {"cancel_reload", "done"}
    /\ other.trace # << >>
    /\ other.trace[1].saw \in PredictionStatus
    /\ server.exists /\ server.status \in Terminal

\* the service reports the terminal prediction on every GET after that POST
ReportsTerminal ==
    Posted =>
        /\ last' \in {last, Response(TRUE, Readable(ToJson(server)))}
        /\ other'.last \in {other.last, Response(TRUE, Readable(ToJson(server)))}

\* polls of one wait the service answers with a non-terminal status while a
\* second thread is at work
ConcPolls == 2

\* an exchange either fails in transport or brings the answer of the service
Plain(o) ==
    o.kind = "response" => o.success /\ o.body.readable /\ o.body.text # DetailJson

\* the service names the prediction p1, answers a wait in progress with a
\* non-terminal status at most ConcPolls times, and the network does not
\* damage an answer
ConcService ==
    /\ server'.exists => server'.id = "p1"
    /\ pc' = "wait_step" /\ pc = "wait_poll" => Sleeps(trace) < ConcPolls
    /\ Plain(last') /\ Plain(other'.last)

\* the first thread creates, reloads, cancels and waits; the second clones
\* the handle and cancels through the clone
ConcNext ==
    \/ \E v \in VersionRefs, i \in InputMaps : Create(v, i) /\ ConcService
    \/ Reload /\ ReportsTerminal /\ ConcService
    \/ CancelPost /\ ConcService
    \/ CancelReload /\ ReportsTerminal /\ ConcService
    \/ WaitCall("crate")
    \/ WaitPoll /\ ReportsTerminal /\ ConcService
    \/ WaitStep
    \/ CloneHandle
    \/ OtherCancelPost /\ ConcService
    \/ OtherCancelReload /\ ReportsTerminal /\ ConcService
    \/ ServerAdvance

ConcSpec == Init /\ [][ConcNext]_vars

\* both threads run: a loop of wait and a cancel that was called, on either
\* handle, keep taking their steps
ConcFairSpec ==
    /\ ConcSpec
    /\ WF_vars(WaitPoll /\ ReportsTerminal /\ ConcService)
    /\ WF_vars(WaitStep)
    /\ WF_vars(CancelReload /\ ReportsTerminal /\ ConcService)
    /\ WF_vars(OtherCancelReload /\ ReportsTerminal /\ ConcService)

TypeOK ==
    /\ pc \in {"main", "exited", "idle", "cancel_reload", "wait_poll", "wait_step",
              "panicked"}
    /\ result.kind \in {"none", "pending", "ok", "err", "panic", "exit"}

\* ------------------------------------------------------------ observations
\* the operation is wait of the crate (called directly or through run)
IsWait == op.name \in {"wait", "run"}

\* the operation returned to its caller
Returned == pc = "idle" /\ result.kind \in {"ok", "err"}

\* the part of the trace that wait produced
WaitTrace == IF op.name = "run" /\ trace # << >> THEN Tail(trace) ELSE trace

Odd(i) == i % 2 = 1

PollFailures == {"sendfail", "unreadable", "undecodable"}

\* polls of the wait so far, and those that were answered non-terminal
Polls(t) == {i \in DOMAIN t : t[i].ev = "request"}

NonTerminalPolls(t) == {i \in Polls(t) : t[i].saw \in NonTerminal}

\* the latest request of the operation was a GET that brought a decodable
\* prediction
LastIsPrediction ==
    /\ trace # << >>
    /\ trace[Len(trace)].ev = "request"
    /\ trace[Len(trace)].req.method = "GET"
    /\ trace[Len(trace)].saw \in PredictionStatus

\* ------------------------------------------------------------------ claims
\* C1: a wait that is answered k non-terminal statuses and then a terminal
\* one performs exactly k+1 GET polls and exactly k delay steps, one after
\* each non-terminal poll, none before the first poll and none after the
\* terminal poll, and returns the entity of the last poll.
C1_PollsAndDelays ==
    IsWait =>
        LET t == WaitTrace
        IN  /\ \A i \in DOMAIN t :
                  /\ Odd(i) => t[i].ev = "request" /\ t[i].req.method = "GET"
                  /\ ~Odd(i) => t[i].ev = "sleep" /\ t[i].ms = FixedDelayMs
                  /\ i < Len(t) /\ Odd(i) => t[i].saw \in NonTerminal
            /\ (Returned /\ result.kind = "ok" /\ t # << >>) =>
                  /\ t[Len(t)].ev = "request"
                  /\ t[Len(t)].saw \in Terminal
                  /\ Cardinality(Polls(t)) = Cardinality(NonTerminalPolls(t)) + 1
                  /\ Sleeps(t) = Cardinality(NonTerminalPolls(t))
                  /\ result.value.status = last.body.text.status
                  /\ result.value.id = last.body.text.id
                  /\ result.value.output = last.body.text.output
                  /\ result.value.error = last.body.text.error

\* witness of C1: starting, then processing, then succeeded: three polls
C1_Witness ==
    /\ op.name = "wait" /\ Returned /\ result.kind = "ok"
    /\ Len(trace) = 5
    /\ trace[1].saw = "starting" /\ trace[3].saw = "processing"
    /\ trace[5].saw = "succeeded"
    /\ result.value.status = "succeeded"

C4_WaitReturns ==
    (IsWait /\ pc \in {"wait_poll", "wait_step"} /\ server.status \in Terminal)
        ~> (IsWait /\ pc = "idle"
            /\ (result.kind = "ok" \/ Saw(last) \in PollFailures))

\* witness of C4: run returned after the service reached a terminal status
C4_Witness ==
    /\ op.name = "run" /\ Returned /\ result.kind = "ok"
    /\ server.status \in Terminal
    /\ Len(trace) >= 2

\* C5: max_retries does not bound the polls: after any number n of
\* non-terminal polls, also n > max_retries, wait is still polling; it
\* returns only on a terminal status (after n+1 polls) or on a failed poll,
\* and never with an attempts-exhausted error.
C5_NotBoundedByMaxRetries ==
    (IsWait /\ WaitTrace # << >>) =>
        LET t == WaitTrace
            n == Cardinality(NonTerminalPolls(t))
        IN  /\ (pc = "idle" /\ result.kind = "ok") =>
                  Cardinality(Polls(t)) = n + 1
            /\ (pc = "idle" /\ result.kind = "err") =>
                  /\ result.err \in {ReqwestError, SerdeError}
                  /\ t[Len(t)].ev = "request" /\ t[Len(t)].saw \in PollFailures
            /\ (t[Len(t)].ev = "request" /\ t[Len(t)].saw \in NonTerminal) =>
                  pc = "wait_step"
            /\ t[Len(t)].ev = "sleep" => pc = "wait_poll"

\* witness of C5: a wait that returned after more non-terminal polls than
\* max_retries
C5_Witness ==
    /\ op.name = "wait" /\ Returned /\ result.kind = "ok"
    /\ Cardinality(NonTerminalPolls(trace)) > max_retries
    /\ Cardinality(Polls(trace)) = Cardinality(NonTerminalPolls(trace)) + 1

\* C6: a successful cancel issued exactly one POST to
\* {base}/predictions/{id}/cancel, then exactly one GET to
\* {base}/predictions/{id}, nothing else, and the local status is the one the
\* GET response carried.
C6_CancelPostThenGet ==
    (op.name = "cancel" /\ Returned /\ result.kind = "ok") =>
        /\ Len(trace) = 2
        /\ trace[1].ev = "request" /\ trace[1].req.method = "POST"
        /\ trace[1].req.url = << Config.base_url, "predictions", pre.id, "cancel" >>
        /\ trace[2].ev = "request" /\ trace[2].req.method = "GET"
        /\ trace[2].req.url = << Config.base_url, "predictions", pre.id >>
        /\ client.status = last.body.text.status

\* witness of C6: a cancel that succeeded and changed the local status
C6_Witness ==
    /\ op.name = "cancel" /\ Returned /\ result.kind = "ok"
    /\ pre.status = "starting" /\ client.status = "canceled"

C8_InvalidVersionIsError ==
    (op.name = "create" /\ ~parse_version(op.version).some) =>
        (result.kind = "err" /\ result.err.kind = "InvalidVersionString")

\* C9: no prediction-lifecycle operation panics: every failure ends the
\* operation with an error value.
C9_NoPanic == pc # "panicked" /\ result.kind # "panic"

ReadingOps == {"reload", "wait"} \cup Accessors

\* the prediction fields a PredictionClient holds
ClientFields ==
    {"id", "version", "urls", "created_at", "status", "input", "error", "logs"}

\* C11: a reading operation (reload, wait, every accessor) whose request is
\* answered with a non-success status returns a response error carrying the
\* body text, never an entity decoded from that body.
C11_NonSuccessIsResponseError ==
    (op.name \in ReadingOps /\ Returned /\ last.kind = "response"
        /\ ~last.success /\ last.body.readable) =>
        result = Err(ResponseError(last.body.text))

\* C12: after a reload that returned Ok, every prediction field of the
\* PredictionClient equals the member of that name in the body of the GET.
C12_ReloadCopiesEveryField ==
    (op.name = "reload" /\ Returned /\ result.kind = "ok") =>
        \A f \in ClientFields : client[f] = Opt(last.body.text, f)

\* a reload that returned Ok and changed the status, the error and the logs
C12_Witness ==
    /\ op.name = "reload" /\ Returned /\ result.kind = "ok"
    /\ client.status = "failed" /\ pre.status = "starting"
    /\ client.error = "boom" /\ pre.error = None
    /\ client.logs = "log" /\ pre.logs = None

\* create or reload returned Ok and the service has not touched the stored
\* prediction since it answered
InSync ==
    /\ op.name \in {"create", "reload"} /\ Returned /\ result.kind = "ok"
    /\ last.body.text = ToJson(server)

\* C13: a reload that follows a create or a reload, with the stored
\* prediction unchanged in between, leaves every field of the
\* PredictionClient as it was (reload is idempotent).
C13_ReloadIdempotent ==
    [][(InSync /\ op'.name = "reload" /\ result'.kind = "ok") => client' = client]_vars

\* a second reload in a row answered from the same stored prediction
C13_Witness ==
    /\ InSync /\ op.name = "reload" /\ client = pre
    /\ client.status = "processing" /\ client.logs = "log"

\* C14: the id of a PredictionClient is the one the service assigned at
\* create, whatever reload, cancel and wait did since, and every request of
\* those operations is addressed to that id.
C14_IdImmutable ==
    /\ client.exists => client.id = server.id
    /\ op.name \in {"reload", "cancel", "wait", "libs_wait"} =>
           \A i \in Polls(trace) :
               /\ Len(trace[i].req.url) >= 3
               /\ trace[i].req.url[3] = server.id

\* the second assigned id, still held after a cancel that ran both requests
C14_Witness ==
    /\ op.name = "cancel" /\ Returned /\ result.kind = "ok"
    /\ client.id = "p2" /\ Len(trace) = 2

\* position of a status in the lifecycle
Rank(st) ==
    CASE st = "starting" -> 0
      [] st = "processing" -> 1
      [] OTHER -> 2

\* C15: the status a PredictionClient holds never moves backward in
\* starting -> processing -> terminal, and a terminal status never changes.
C15_StatusMonotonic ==
    [][(client.exists /\ client'.exists) =>
          /\ Rank(client'.status) >= Rank(client.status)
          /\ client.status \in Terminal => client'.status = client.status]_vars

\* a cancel on a handle that already held a terminal status
C15_Witness ==
    /\ op.name = "cancel" /\ Returned /\ result.kind = "ok"
    /\ pre.status = "succeeded" /\ client.status = "succeeded"

\* the fields of the handle are those of the body of the latest request
Reflects ==
    /\ last.kind = "response" /\ last.body.readable
    /\ \A f \in ClientFields : client[f] = Opt(last.body.text, f)

\* C16: the fields of a PredictionClient are never computed locally: they
\* change only when create or reload (alone or inside cancel) decoded a
\* response, and then they are the members of that response.
C16_ReflectsServer ==
    /\ [](op.name \in {"create", "reload"} /\ Returned /\ result.kind = "ok" => Reflects)
    /\ [][(client' # client /\ client'.exists) =>
             /\ op'.name \in {"create", "run", "reload", "cancel"}
             /\ Reflects']_vars

\* right after create the handle holds the id and the status of the response
C16_Witness ==
    /\ op.name = "create" /\ Returned /\ result.kind = "ok"
    /\ client.id = "p2" /\ last.body.text.id = "p2"
    /\ client.status = "processing" /\ last.body.text.status = "processing"

\* C17: parse_version(s) is Some exactly when s has a ':' and the part
\* before the first ':' has a '/'; it then returns that part and all that
\* follows the first ':' (further ':' included, possibly empty).
C17_ParseVersion ==
    (op.name = "parse_version" /\ result.kind = "ok") =>
        LET s == op.version
            r == result.value
        IN  IF \E i \in 1..Len(s) :
                   /\ s[i] = ":"
                   /\ \A j \in 1..(i - 1) : s[j] # ":"
                   /\ \E j \in 1..(i - 1) : s[j] = "/"
            THEN /\ r.some
                 /\ r.model \o << ":" >> \o r.version = s
                 /\ \A j \in 1..Len(r.model) : r.model[j] # ":"
            ELSE r = [some |-> FALSE]

\* a reference whose version part has a further ':' and then ends
C17_Witness ==
    /\ op.name = "parse_version" /\ result.kind = "ok"
    /\ result.value.some
    /\ result.value.model = << "a", "/" >>
    /\ result.value.version = << "a", ":" >>

\* C18: the body of the POST of create has exactly the members version and
\* input: version is what follows the first ':' of the reference, input is
\* the caller's mapping; the owner/name part is in neither body nor URL.
C18_CreateBody ==
    (op.name \in {"create", "run"} /\ trace # << >>) =>
        LET req == trace[1].req
        IN  /\ req.method = "POST"
            /\ req.url = << Config.base_url, "predictions" >>
            /\ DOMAIN req.body = {"version", "input"}
            /\ req.body.input = op.inputs
            /\ \E n \in 0..Len(op.version) :
                   /\ op.version = SubSeq(op.version, 1, n) \o << ":" >> \o req.body.version
                   /\ \A j \in 1..n : op.version[j] # ":"

\* a create whose reference has a second ':', kept in the version member
C18_Witness ==
    /\ op.name = "create" /\ Returned
    /\ op.version = << "o", "/", "m", ":", "v", ":", "x" >>
    /\ trace[1].req.body = [version |-> << "v", ":", "x" >>, input |-> [text |-> "world"]]

\* C19: run issues one POST to {base}/predictions, then GETs of
\* {base}/predictions/{id} for the id the POST response assigned, one after
\* the other until one brings a terminal status, and returns the entity of
\* that last GET; a create answered processing and a first GET answered
\* succeeded make exactly one POST and one GET.
C19_RunSequence ==
    (op.name = "run" /\ trace # << >>) =>
        /\ trace[1].ev = "request"
        /\ trace[1].req.method = "POST"
        /\ trace[1].req.url = << Config.base_url, "predictions" >>
        /\ \A i \in 2..Len(trace) :
               trace[i].ev = "request" =>
                   /\ trace[i].req.method = "GET"
                   /\ trace[i].req.url = << Config.base_url, "predictions", server.id >>
                   /\ i < Len(trace) => trace[i].saw \in NonTerminal
        /\ (Returned /\ result.kind = "ok") =>
               /\ Len(trace) >= 2
               /\ trace[Len(trace)].ev = "request"
               /\ trace[Len(trace)].saw \in Terminal
               /\ result = DeserializeGetPrediction(last.body.text)
        /\ (Len(trace) >= 2 /\ trace[1].saw = "processing"
                /\ trace[2].saw = "succeeded") =>
               /\ Len(trace) = 2
               /\ Returned /\ result.kind = "ok"
               /\ result.value.status = "succeeded"

\* run with create answered processing and the first poll answered succeeded
C19_Witness ==
    /\ op.name = "run" /\ Returned /\ result.kind = "ok"
    /\ Len(trace) = 2
    /\ trace[1].saw = "processing" /\ trace[2].saw = "succeeded"
    /\ trace[2].req.url = << Config.base_url, "predictions", "p2" >>

\* C20: every request of every operation carries Authorization: "Token "
\* followed by the credential, and User-Agent: the configured value.
C20_StandardHeaders ==
    \A i \in Polls(trace) :
        /\ trace[i].req.headers.Authorization = << "Token ", Config.auth >>
        /\ trace[i].req.headers.UserAgent = Config.user_agent

\* a training cancel that sent its POST
C20_Witness ==
    /\ op.name = "trainings.cancel" /\ Returned
    /\ trace[1].req.method = "POST"
    /\ trace[1].req.url = << Config.base_url, "trainings", "r2", "cancel" >>
    /\ trace[1].req.headers =
           [Authorization |-> << "Token ", "test" >>,
            UserAgent |-> "replicate-rust/CARGO_PKG_VERSION"]

\* C21: Replicate::new with an empty credential ends the process and yields
\* no facade, so no request with an empty credential is ever issued through
\* a facade; with a non-empty credential it returns the facade.
C21_FailFast ==
    /\ op.name = "new" =>
           IF op.config.auth = ""
           THEN pc = "exited" /\ ~replicate.exists /\ result = [kind |-> "exit", code |-> 1]
           ELSE pc = "idle" /\ replicate.exists /\ replicate.config = op.config
    /\ pc = "exited" => trace = << >>
    /\ replicate.exists => replicate.config.auth # ""
    /\ \A i \in Polls(trace) : trace[i].req.headers.Authorization # << "Token ", "" >>

\* construction was attempted with the empty credential
C21_Witness ==
    /\ op.name = "new" /\ op.config.auth = ""
    /\ pc = "exited" /\ result.kind = "exit"

\* what made the latest request of the operation fail, read off its outcome
Cause(o) ==
    IF o.kind = "sendfail" \/ ~o.body.readable THEN "transport"
    ELSE IF ~o.success THEN "response"
    ELSE "deserialization"

\* C22: every error an operation of the crate returns is of one of the four
\* kinds, and the kind is the cause: transport for a failed send or read,
\* response (with the raw body) for a non-success status, deserialization
\* for a body that does not decode.
C22_FourKinds ==
    (Returned /\ result.kind = "err" /\ op.name # "libs_wait" /\ last.kind # "none") =>
        /\ result.err.kind \in {"Reqwest", "Response", "Serde", "InvalidVersionString"}
        /\ Cause(last) = "transport" => result.err = ReqwestError
        /\ Cause(last) = "response" => result.err = ResponseError(last.body.text)
        /\ Cause(last) = "deserialization" => result.err = SerdeError

\* the requests of the trace that suffered a transport failure
TransportFailures(t) == {i \in Polls(t) : t[i].saw = "sendfail"}

\* C23: create, reload, cancel and the accessors issue a request that
\* suffers a transport failure once and return the transport error; wait
\* retries such a poll while the prediction is not terminal, so it returns
\* a transport error only for a prediction that is terminal.
C23_TransportRetry ==
    /\ (op.name \in {"create", "reload", "cancel"} \cup Accessors /\ Returned) =>
           \A i \in TransportFailures(trace) :
               i = Len(trace) /\ result = Err(ReqwestError)
    /\ (op.name = "wait" /\ Returned /\ last.kind = "sendfail") =>
           server.status \in Terminal

\* C26: a reload whose GET fails to send, whose body cannot be read or does
\* not decode returns the error and leaves every field of the
\* PredictionClient as it was before the call.
C26_FailedReloadKeepsFields ==
    (op.name = "reload" /\ Returned
        /\ (last.kind = "sendfail" \/ ~last.body.readable
              \/ DeserializeGetPrediction(last.body.text).kind = "err")) =>
        /\ result.kind = "err"
        /\ client = pre

\* a reload that failed to decode on a handle that held logs
C26_Witness ==
    /\ op.name = "reload" /\ Returned /\ result = Err(SerdeError)
    /\ client = pre /\ client.status = "processing" /\ client.logs = "log"

\* C27: wait changes no field of the PredictionClient: when it returned, an
\* entity or an error, the handle is as it was before the call.
C27_WaitKeepsFields ==
    (op.name = "wait" /\ pc \in {"idle", "wait_poll", "wait_step"}) => client = pre

\* a wait that returned a terminal entity while the handle still says starting
C27_Witness ==
    /\ op.name = "wait" /\ Returned /\ result.kind = "ok"
    /\ result.value.status = "succeeded"
    /\ client.status = "starting" /\ client = pre

\* C28: wait, in both variants, issues at least one GET before it returns,
\* also on a handle whose status is already terminal, and an entity it
\* returns is the one decoded from the body of its last GET.
C28_WaitAlwaysPolls ==
    (op.name \in {"wait", "libs_wait"} /\ Returned) =>
        /\ Polls(trace) # {}
        /\ trace[1].ev = "request" /\ trace[1].req.method = "GET"
        /\ result.kind = "ok" =>
               /\ last.kind = "response" /\ last.body.readable
               /\ result = DeserializeGetPrediction(last.body.text)

\* a wait on a handle that already held a terminal status
C28_Witness ==
    /\ op.name = "wait" /\ Returned /\ result.kind = "ok"
    /\ pre.status = "failed" /\ Len(trace) = 1
    /\ result.value.output = None /\ result.value.completed_at = "t2"

\* C29: a cancel whose POST fails to send returns that error, issues no GET
\* and leaves the PredictionClient as it was; a GET is in the trace only
\* after a POST that was answered.
C29_CancelPostTransportFailure ==
    op.name = "cancel" =>
        /\ trace[1].req.method = "POST"
        /\ trace[1].saw = "sendfail" =>
               /\ Returned /\ result = Err(ReqwestError)
               /\ Len(trace) = 1
               /\ client = pre
        /\ \A i \in Polls(trace) :
               trace[i].req.method = "GET" => (i = 2 /\ trace[1].saw # "sendfail")

\* a cancel that stopped at the POST
C29_Witness ==
    /\ op.name = "cancel" /\ Returned /\ result = Err(ReqwestError)
    /\ Len(trace) = 1 /\ trace[1].saw = "sendfail"
    /\ client = pre /\ client.status = "processing"

\* a wait of either variant has polled at least once
WaitPolled ==
    /\ op.name \in {"wait", "libs_wait"}
    /\ pc \in {"idle", "wait_poll", "wait_step"}
    /\ last.kind # "none"

\* the latest poll brought a prediction that failed or was canceled
LastFailedOrCanceled ==
    /\ LastIsPrediction
    /\ last.body.text.status \in {"failed", "canceled"}

CanceledDuringWait ==
    /\ Posted
    /\ other.at \in {"wait_poll", "wait_step"}

\* what the two calls came to, whenever they have returned
C24_Safe ==
    CanceledDuringWait =>
        /\ op.name = "wait" /\ pc = "idle" =>
               /\ result.kind = "ok"
               /\ result.value.status \in Terminal
               /\ result.value.id = client.id
               /\ client = pre
        /\ other.pc = "done" =>
               /\ other.result = Ok("unit")
               /\ other.client.parent = client.parent
               /\ \A f \in ClientFields : other.client[f] = server[f]
               /\ Len(other.trace) = 2

\* C24: when a clone of the handle is cancelled on a second thread while
\* wait is blocked on the original, and the service reports the terminal
\* prediction on every GET after the cancel POST, then under every
\* interleaving wait returns a terminal entity and leaves the original as it
\* was, and cancel returns success with the clone holding the fields the
\* service reports.
C24_CancelDuringWait ==
    /\ []C24_Safe
    /\ (CanceledDuringWait ~> pc = "idle")
    /\ (CanceledDuringWait ~> other.pc = "done")

\* wait returned the canceled prediction after a delay step, the clone's
\* cancel returned, and the original still holds the status of its creation
C24_Witness ==
    /\ CanceledDuringWait
    /\ op.name = "wait" /\ pc = "idle"
    /\ result.kind = "ok" /\ result.value.status = "canceled"
    /\ Sleeps(trace) >= 1
    /\ other.pc = "done" /\ other.result = Ok("unit")
    /\ other.client.status = "canceled"
    /\ client.status = "starting"

\* the first thread took a step
FirstThreadStep == << pc, op, trace, last, result, pre >>' # << pc, op, trace, last, result, pre >>

====
